---- MODULE Spec2Model ----
(***************************************************************************)
(* A model of filey: the byte-size formatter (unit_of_information.rs), the *)
(* tilde / absolutize path transforms and the move_to operation of the     *)
(* three revisions of the file handle (file_operations.rs, filey.rs and    *)
(* lib.rs).                                                                *)
(***************************************************************************)
EXTENDS Integers, Sequences, FiniteSets

VARIABLES
    fpc,      \* formatter: "start" before UnitOfInfo::format ran, "done" after
    fn,       \* formatter: the u64 argument n
    fout,     \* formatter: the String format(n) returned
    home,     \* the environment variable HOME: set or not, and its value
    cwd,      \* the process working directory
    ppath,    \* the path string of the Filey in hand (Filey.path)
    plast,    \* the last path transform called on it and how it ended
    fs,       \* the filesystem below the working directory: path -> entry
    handle,   \* the path of the Filey / FileOperations value in hand
    last,     \* the last filesystem call: its arguments, outcome and the fs before
    mode,     \* permissions: the st_mode that metadata reports for the path
    perms     \* permissions: what Permissions::from_path came to

vars == <<fpc, fn, fout, home, cwd, ppath, plast, fs, handle, last, mode, perms>>

\* what the pure functions are applied to and what they return; fpc is
\* "start" before the call and "done" after it
fvars == <<fpc, fn, fout, mode, perms>>
pvars == <<home, cwd, ppath, plast>>
svars == <<fs, handle, last>>

(***************************************************************************)
(* The filesystem.  A path is a sequence of names below the working        *)
(* directory; an entry is a regular file with its bytes, a directory or a  *)
(* symbolic link with its target.  fs maps the paths that have an entry.   *)
(***************************************************************************)
Names == {"a", "b"}
MaxDepth == 2
MaxEntries == 2
\* what write is called with
Bufs == {<<1>>}

Paths == UNION {[1 .. k -> Names] : k \in 1 .. MaxDepth}

NoEntry == [kind |-> "none", content |-> <<>>, target |-> <<>>]
DirEntry == [kind |-> "dir", content |-> <<>>, target |-> <<>>]
FileEntry(c) == [kind |-> "file", content |-> c, target |-> <<>>]
LinkEntry(t) == [kind |-> "symlink", content |-> <<>>, target |-> t]

EmptyFs == <<>>

NoCall == [op |-> "new", facade |-> "none", self |-> <<>>, dest |-> <<>>,
           status |-> "ok", to |-> <<>>, ret |-> <<>>, pre |-> EmptyFs]

\* the parts of the state a specification leaves alone
\* permissions.rs Permission::new
Permission(execute, write, read) == [execute |-> execute, write |-> write, read |-> read]

\* #[derive(Default)] for Permission
NoPermission == Permission(FALSE, FALSE, FALSE)

NoPermissions ==
    [status |-> "none", user |-> NoPermission, group |-> NoPermission, others |-> NoPermission]

PermIdle == mode = 0 /\ perms = NoPermissions

FormatIdle == fpc = "start" /\ fn = <<>> /\ fout = <<>> /\ PermIdle

PathIdle ==
    /\ home = [set |-> FALSE, value |-> <<>>]
    /\ cwd = <<"/">>
    /\ ppath = <<>>
    /\ plast = [op |-> "new", facade |-> "none", status |-> "ok", from |-> <<>>]

FsIdle ==
    /\ fs = EmptyFs
    /\ handle = <<"a">>
    /\ last = NoCall

(***************************************************************************)
(* u64 arithmetic.  A u64 is kept as its limbs in radix 2^10, least        *)
(* significant first, without high zero limbs (zero is the empty           *)
(* sequence), so that every intermediate value stays a small integer.      *)
(***************************************************************************)
Base == 2^10

RECURSIVE Norm(_)
Norm(s) == IF s = <<>> THEN <<>>
           ELSE IF s[Len(s)] = 0 THEN Norm(SubSeq(s, 1, Len(s) - 1))
           ELSE s

RECURSIVE AddSmall(_, _)
AddSmall(s, k) ==
    IF k = 0 THEN s
    ELSE IF s = <<>> THEN <<k % Base>> \o AddSmall(<<>>, k \div Base)
    ELSE LET t == s[1] + k IN <<t % Base>> \o AddSmall(Tail(s), t \div Base)

RECURSIVE MulCarry(_, _, _)
MulCarry(s, k, c) ==
    IF s = <<>> THEN AddSmall(<<>>, c)
    ELSE LET t == s[1] * k + c IN <<t % Base>> \o MulCarry(Tail(s), k, t \div Base)

MulSmall(s, k) == IF k = 0 THEN <<>> ELSE MulCarry(s, k, 0)

RECURSIVE LessFrom(_, _, _)
LessFrom(a, b, i) ==
    IF i = 0 THEN FALSE
    ELSE IF a[i] # b[i] THEN a[i] < b[i]
    ELSE LessFrom(a, b, i - 1)

Less(a, b) == IF Len(a) # Len(b) THEN Len(a) < Len(b) ELSE LessFrom(a, b, Len(a))

Leq(a, b) == ~Less(b, a)

RECURSIVE SubBorrow(_, _, _)
SubBorrow(a, b, br) ==
    IF a = <<>> THEN <<>>
    ELSE LET y == (IF b = <<>> THEN 0 ELSE b[1]) + br
             bt == IF b = <<>> THEN <<>> ELSE Tail(b)
         IN IF a[1] >= y THEN <<a[1] - y>> \o SubBorrow(Tail(a), bt, 0)
            ELSE <<a[1] + Base - y>> \o SubBorrow(Tail(a), bt, 1)

\* a - b for a >= b
Sub(a, b) == Norm(SubBorrow(a, b, 0))

\* quotient and remainder of s by a small divisor k
RECURSIVE DivSmall(_, _)
DivSmall(s, k) ==
    IF s = <<>> THEN [q |-> <<>>, r |-> 0]
    ELSE LET hi == DivSmall(Tail(s), k)
             t == hi.r * Base + s[1]
         IN [q |-> Norm(<<t \div k>> \o hi.q), r |-> t % k]

\* one quotient limb of t by m (t < m * Base), by compare and subtract
RECURSIVE LimbDiv(_, _, _, _)
LimbDiv(t, m, j, acc) ==
    IF j < 0 THEN [d |-> acc, r |-> t]
    ELSE LET mj == MulSmall(m, 2^j)
         IN IF Leq(mj, t) THEN LimbDiv(Sub(t, mj), m, j - 1, acc + 2^j)
            ELSE LimbDiv(t, m, j - 1, acc)

\* quotient and remainder of n by m (m # 0): u64 `/` and `%`
RECURSIVE DivMod(_, _)
DivMod(n, m) ==
    IF n = <<>> THEN [q |-> <<>>, r |-> <<>>]
    ELSE LET hi == DivMod(Tail(n), m)
             t == Norm(<<n[1]>> \o hi.r)
             ld == LimbDiv(t, m, 9, 0)
         IN [q |-> Norm(<<ld.d>> \o hi.q), r |-> ld.r]

Div(n, m) == DivMod(n, m).q

RECURSIVE AddCarry(_, _, _)
AddCarry(x, y, c) ==
    IF x = <<>> /\ y = <<>> THEN AddSmall(<<>>, c)
    ELSE LET xv == IF x = <<>> THEN 0 ELSE x[1]
             yv == IF y = <<>> THEN 0 ELSE y[1]
             t == xv + yv + c
         IN <<t % Base>> \o AddCarry(IF x = <<>> THEN <<>> ELSE Tail(x),
                                     IF y = <<>> THEN <<>> ELSE Tail(y), t \div Base)

\* a + b
Add(a, b) == Norm(AddCarry(a, b, 0))

\* a * b
RECURSIVE Mul(_, _)
Mul(a, b) ==
    IF b = <<>> THEN <<>>
    ELSE LET rest == Mul(a, Tail(b))
         IN Add(MulSmall(a, b[1]), IF rest = <<>> THEN <<>> ELSE <<0>> \o rest)

\* a decimal literal written in groups of three digits, as 1_048_576
RECURSIVE Lit(_)
Lit(g) == IF g = <<>> THEN <<>>
          ELSE AddSmall(MulSmall(Lit(SubSeq(g, 1, Len(g) - 1)), 1000), g[Len(g)])

U64Max == Sub(Lit(<<18, 446, 744, 073, 709, 551, 616>>), <<1>>)

(***************************************************************************)
(* Strings are sequences of one-character strings.                         *)
(***************************************************************************)
DigitChar == <<"0", "1", "2", "3", "4", "5", "6", "7", "8", "9">>

RECURSIVE DecDigits(_)
DecDigits(n) ==
    IF n = <<>> THEN <<>>
    ELSE LET dm == DivSmall(n, 10) IN DecDigits(dm.q) \o <<DigitChar[dm.r + 1]>>

\* u64::to_string
to_string(n) == IF n = <<>> THEN <<"0">> ELSE DecDigits(n)

EndsWith(s, suffix) ==
    /\ Len(s) >= Len(suffix)
    /\ SubSeq(s, Len(s) - Len(suffix) + 1, Len(s)) = suffix

(***************************************************************************)
(* Path strings, HOME and the tilde / absolutize transforms of the two     *)
(* handle revisions: filey.rs changes the handle in place,                 *)
(* file_operations.rs returns a new value, which becomes the one in hand.  *)
(***************************************************************************)
StartsWith(s, prefix) ==
    /\ Len(s) >= Len(prefix)
    /\ SubSeq(s, 1, Len(prefix)) = prefix

\* str::find: the first index at which pat occurs in s, 0 when it does not
Find(s, pat) ==
    LET hits == {i \in 1 .. (Len(s) + 1) :
                    i + Len(pat) - 1 <= Len(s) /\ SubSeq(s, i, i + Len(pat) - 1) = pat}
    IN IF hits = {} THEN 0 ELSE CHOOSE i \in hits : \A j \in hits : i <= j

\* str::replacen(pat, to, count)
RECURSIVE replacen(_, _, _, _)
replacen(s, pat, to, count) ==
    LET i == Find(s, pat)
    IN IF count = 0 \/ i = 0 THEN s
       ELSE IF pat = <<>>
            THEN IF s = <<>> THEN to
                 ELSE to \o <<s[1]>> \o replacen(Tail(s), pat, to, count - 1)
            ELSE SubSeq(s, 1, i - 1) \o to
                    \o replacen(SubSeq(s, i + Len(pat), Len(s)), pat, to, count - 1)

\* std::env::var("HOME")
home_dir == IF home.set THEN [ok |-> TRUE, value |-> home.value]
            ELSE [ok |-> FALSE, value |-> <<>>]

Ok(v) == [ok |-> TRUE, value |-> v]
Err(v) == [ok |-> FALSE, value |-> v]

\* expand_user that replaces every tilde
fy_expand_user_all(s) ==
    IF StartsWith(s, <<"~">>)
    THEN IF home_dir.ok THEN Ok(replacen(s, <<"~">>, home_dir.value, Len(s))) ELSE Err(s)
    ELSE Ok(s)

\* filey.rs Filey::expand_user: the new value of self.path
fy_expand_user(s) ==
    IF StartsWith(s, <<"~">>)
    THEN IF home_dir.ok THEN Ok(replacen(s, <<"~">>, home_dir.value, 1)) ELSE Err(s)
    ELSE Ok(s)

\* contract_user that replaces every occurrence of HOME
fy_contract_user_all(s) ==
    IF ~home_dir.ok THEN Err(s)
    ELSE IF StartsWith(s, home_dir.value)
         THEN Ok(replacen(s, home_dir.value, <<"~">>, Len(s) + 1))
         ELSE Ok(s)

\* filey.rs Filey::contract_user
fy_contract_user(s) ==
    IF ~home_dir.ok THEN Err(s)
    ELSE IF StartsWith(s, home_dir.value)
         THEN Ok(replacen(s, home_dir.value, <<"~">>, 1))
         ELSE Ok(s)

\* expand_user that replaces every tilde
fo_expand_user_all(s) ==
    IF ~home_dir.ok THEN Err(s)
    ELSE IF StartsWith(s, <<"~">>)
         THEN Ok(replacen(s, <<"~">>, home_dir.value, Len(s)))
         ELSE Ok(s)

\* file_operations.rs Filey::expand_user
fo_expand_user(s) ==
    IF ~home_dir.ok THEN Err(s)
    ELSE IF StartsWith(s, <<"~">>)
         THEN Ok(replacen(s, <<"~">>, home_dir.value, 1))
         ELSE Ok(s)

\* close_user that replaces every occurrence of HOME
fo_close_user_all(s) ==
    IF ~home_dir.ok THEN Err(s)
    ELSE IF StartsWith(s, home_dir.value)
         THEN Ok(replacen(s, home_dir.value, <<"~">>, Len(s) + 1))
         ELSE Ok(s)

\* file_operations.rs Filey::close_user
fo_close_user(s) ==
    IF ~home_dir.ok THEN Err(s)
    ELSE IF StartsWith(s, home_dir.value)
         THEN Ok(replacen(s, home_dir.value, <<"~">>, 1))
         ELSE Ok(s)

\* Path::components: the pieces between separators; empty pieces vanish
RECURSIVE Split(_, _)
Split(s, cur) ==
    IF s = <<>> THEN (IF cur = <<>> THEN <<>> ELSE <<cur>>)
    ELSE IF s[1] = "/" THEN (IF cur = <<>> THEN <<>> ELSE <<cur>>) \o Split(Tail(s), <<>>)
    ELSE Split(Tail(s), Append(cur, s[1]))

Components(s) == Split(s, <<>>)

\* the tokens kept after each component: "." is dropped, ".." removes the
\* last token (the root stays), a normal component is pushed
RECURSIVE Resolve(_, _)
Resolve(tokens, comps) ==
    IF comps = <<>> THEN tokens
    ELSE IF comps[1] = <<".">> THEN Resolve(tokens, Tail(comps))
    ELSE IF comps[1] = <<".", ".">>
         THEN Resolve(IF tokens = <<>> THEN tokens ELSE SubSeq(tokens, 1, Len(tokens) - 1),
                      Tail(comps))
    ELSE Resolve(Append(tokens, comps[1]), Tail(comps))

RECURSIVE JoinTokens(_)
JoinTokens(tokens) ==
    IF tokens = <<>> THEN <<>>
    ELSE <<"/">> \o tokens[1] \o JoinTokens(Tail(tokens))

FromTokens(tokens) == IF tokens = <<>> THEN <<"/">> ELSE JoinTokens(tokens)

\* absolutize that joins the working directory in front of every path
Absolutize_joined(s) ==
    FromTokens(Resolve(Components(cwd), Components(s)))

\* path_absolutize::Absolutize::absolutize: an absolute path keeps its root, a
\* relative one starts from the working directory; dots are resolved lexically
Absolutize(s) ==
    IF StartsWith(s, <<"/">>)
    THEN FromTokens(Resolve(<<>>, Components(s)))
    ELSE FromTokens(Resolve(Components(cwd), Components(s)))

\* filey.rs Filey::absolutize
fy_absolutize(s) == Ok(Absolutize(s))

\* file_operations.rs Filey::absolutized
fo_absolutized(s) ==
    LET e == fo_expand_user(s)
    IN IF e.ok THEN Ok(Absolutize(e.value)) ELSE Err(s)

\* the longest path string a handle starts with, and the longest it may grow to
MaxLen == 4
MaxGrown == 8

Chars == {"/", "~", ".", "h"}

PathStrings == UNION {[1 .. k -> Chars] : k \in 0 .. MaxLen}

Homes ==
    {[set |-> FALSE, value |-> <<>>]}
        \cup {[set |-> TRUE, value |-> v] :
                v \in {<<>>, <<"/">>, <<"/", "h">>, <<"/", "h", "/">>, <<"~">>, <<"h">>}}

Cwds == {<<"/">>, <<"/", "h">>}

PathInit ==
    /\ home \in Homes
    /\ cwd \in Cwds
    /\ ppath \in PathStrings
    /\ plast = [op |-> "new", facade |-> "none", status |-> "ok", from |-> <<>>]
    /\ FormatIdle
    /\ FsIdle

\* one call on the handle in hand: on success its result is the path in hand
PathCall(op, facade, r) ==
    /\ Len(r.value) <= MaxGrown
    /\ plast' = [op |-> op, facade |-> facade,
                 status |-> IF r.ok THEN "ok" ELSE "err", from |-> ppath]
    /\ ppath' = IF r.ok THEN r.value ELSE ppath
    /\ UNCHANGED <<home, cwd, fvars, svars>>

FyExpandUser == PathCall("expand_user", "filey", fy_expand_user(ppath))
FyContractUser == PathCall("contract_user", "filey", fy_contract_user(ppath))
FyAbsolutize == PathCall("absolutize", "filey", fy_absolutize(ppath))
FoExpandUser == PathCall("expand_user", "file_operations", fo_expand_user(ppath))
FoCloseUser == PathCall("contract_user", "file_operations", fo_close_user(ppath))
FoAbsolutized == PathCall("absolutize", "file_operations", fo_absolutized(ppath))

PathNext ==
    \/ FyExpandUser
    \/ FyContractUser
    \/ FyAbsolutize
    \/ FoExpandUser
    \/ FoCloseUser
    \/ FoAbsolutized

SpecPath == PathInit /\ [][PathNext]_vars

(***************************************************************************)
(* Properties of the tilde transforms and of absolutize.                   *)
(***************************************************************************)
\* C8: when contract_user / close_user succeeded on an absolute path p that
\* starts with the value of HOME, and expand_user is then applied to its
\* result, the path obtained is exactly p again, whatever HOME is.
C8_RoundTrip ==
    [][(/\ plast.op = "contract_user"
        /\ plast.status = "ok"
        /\ StartsWith(plast.from, <<"/">>)
        /\ StartsWith(plast.from, home.value)
        /\ plast'.op = "expand_user"
        /\ plast'.status = "ok")
            => ppath' = plast.from]_vars

\* /h/h under HOME = /h came back from ~/h
C8_Witness ==
    /\ plast.op = "expand_user"
    /\ plast.status = "ok"
    /\ home = [set |-> TRUE, value |-> <<"/", "h">>]
    /\ plast.from = <<"~", "/", "h">>
    /\ ppath = <<"/", "h", "/", "h">>

\* C9: absolutize applied to the result of a successful absolutize returns
\* that result unchanged.
C9_AbsolutizeIdempotent ==
    [][(/\ plast.op = "absolutize"
        /\ plast.status = "ok"
        /\ plast'.op = "absolutize"
        /\ plast'.status = "ok")
            => ppath' = ppath]_vars

\* absolutize was applied to a path that an absolutize of a relative path gave
C9_Witness ==
    /\ plast.op = "absolutize"
    /\ plast.status = "ok"
    /\ cwd = <<"/", "h">>
    /\ plast.from = <<"/", "h", "/", "~", "/", "h">>
    /\ ppath = plast.from

\* C10: with HOME set, expand_user succeeds; on a path that starts with a tilde
\* the result is the HOME value followed by the rest of the path after that
\* first tilde (later tildes stay), on any other path it is the path itself.
C10_ExpandUser ==
    (plast.op = "expand_user" /\ home.set) =>
        /\ plast.status = "ok"
        /\ ppath = IF plast.from # <<>> /\ plast.from[1] = "~"
                   THEN home.value \o Tail(plast.from)
                   ELSE plast.from

\* the second tilde of ~/~ is still there
C10_Witness ==
    /\ plast.op = "expand_user"
    /\ home = [set |-> TRUE, value |-> <<"/", "h">>]
    /\ plast.from = <<"~", "/", "~">>
    /\ ppath = <<"/", "h", "/", "~">>

\* C11: with HOME set, contract_user / close_user on a path that starts with
\* the value of HOME gives the path with that leading occurrence, and no other,
\* replaced by one tilde, and gives every other path unchanged; with HOME
\* unset it fails for every path.
C11_ContractUser ==
    plast.op = "contract_user" =>
        IF home.set
        THEN /\ plast.status = "ok"
             /\ ppath = IF StartsWith(plast.from, home.value)
                        THEN <<"~">> \o SubSeq(plast.from, Len(home.value) + 1, Len(plast.from))
                        ELSE plast.from
        ELSE /\ plast.status = "err"
             /\ ppath = plast.from

\* the second /h of /h/h is still there
C11_Witness ==
    /\ plast.op = "contract_user"
    /\ plast.facade = "file_operations"
    /\ home = [set |-> TRUE, value |-> <<"/", "h">>]
    /\ plast.from = <<"/", "h", "/", "h">>
    /\ ppath = <<"~", "/", "h">>

\* C12: absolutized of file_operations.rs succeeds on every path that does not
\* begin with a tilde, whether or not HOME is set.
C12_AbsolutizedWithoutHome ==
    (/\ plast.op = "absolutize"
     /\ plast.facade = "file_operations"
     /\ ~StartsWith(plast.from, <<"~">>))
        => plast.status = "ok"

(***************************************************************************)
(* unit_of_information.rs                                                  *)
(***************************************************************************)
UnitOfInfo == {"KiB", "MiB", "GiB", "TiB", "PiB", "EiB"}

\* impl fmt::Display for UnitOfInfo
Display(u) ==
    CASE u = "KiB" -> <<"K", "i", "B">>
      [] u = "MiB" -> <<"M", "i", "B">>
      [] u = "GiB" -> <<"G", "i", "B">>
      [] u = "TiB" -> <<"T", "i", "B">>
      [] u = "PiB" -> <<"P", "i", "B">>
      [] u = "EiB" -> <<"E", "i", "B">>

\* impl From<UnitOfInfo> for u64
U64From(u) ==
    CASE u = "KiB" -> Lit(<<1, 024>>)
      [] u = "MiB" -> Lit(<<1, 048, 576>>)
      [] u = "GiB" -> Lit(<<1, 073, 741, 824>>)
      [] u = "TiB" -> Lit(<<1, 099, 511, 627, 776>>)
      [] u = "PiB" -> Lit(<<1, 125, 899, 906, 842, 624>>)
      [] u = "EiB" -> Lit(<<1, 152, 921, 504, 606, 846, 976>>)

RECURSIVE SmallBitLen(_)
SmallBitLen(k) == IF k = 0 THEN 0 ELSE 1 + SmallBitLen(k \div 2)

BitLen(q) == IF q = <<>> THEN 0 ELSE 10 * (Len(q) - 1) + SmallBitLen(q[Len(q)])

\* `q as f64`: the nearest value with a 53-bit significand, ties to even.
\* Every f64 that arises here is a whole number and is kept as that number.
AsF64(q) ==
    LET sh == BitLen(q) - 53
    IN IF sh <= 0 THEN q
       ELSE LET dm == DivSmall(q, 2^sh)
                up == \/ 2 * dm.r > 2^sh
                      \/ 2 * dm.r = 2^sh /\ dm.q[1] % 2 = 1
            IN MulSmall(IF up THEN AddSmall(dm.q, 1) ELSE dm.q, 2^sh)

\* `f as u64` saturates
F64AsU64(f) == IF Less(U64Max, f) THEN U64Max ELSE f

\* the exact ratio n / m rounded to the nearest whole number
convert_ratio(n, u) ==
    LET m == U64From(u)
        dm == DivMod(n, m)
    IN AsF64(IF Leq(m, MulSmall(dm.r, 2)) THEN AddSmall(dm.q, 1) ELSE dm.q)

convert(n, u) ==
    LET m == U64From(u)
    IN AsF64(Div(n, m))

\* f64::round of a whole number is that number
round(n) == F64AsU64(n)

\* digit that counts one character too many
digit_off(n) == Len(to_string(n)) + 1

digit(n) == Len(to_string(n))

\* the half-open Rust range a..b
Range(a, b) == a .. (b - 1)

\* format whose MiB branch converts with the KiB multiplier
format_pasted(n) ==
    LET m == digit(n)
    IN IF m \in Range(4, 7) THEN to_string(round(convert(n, "KiB"))) \o Display("KiB")
       ELSE IF m \in Range(7, 10) THEN to_string(round(convert(n, "KiB"))) \o Display("MiB")
       ELSE IF m \in Range(10, 13) THEN to_string(round(convert(n, "GiB"))) \o Display("GiB")
       ELSE IF m \in Range(13, 16) THEN to_string(round(convert(n, "TiB"))) \o Display("TiB")
       ELSE IF m \in Range(16, 19) THEN to_string(round(convert(n, "PiB"))) \o Display("PiB")
       ELSE IF m \in Range(19, 22) THEN to_string(round(convert(n, "EiB"))) \o Display("EiB")
       ELSE to_string(n) \o <<"B">>

format(n) ==
    LET m == digit(n)
    IN IF m \in Range(4, 7) THEN to_string(round(convert(n, "KiB"))) \o Display("KiB")
       ELSE IF m \in Range(7, 10) THEN to_string(round(convert(n, "MiB"))) \o Display("MiB")
       ELSE IF m \in Range(10, 13) THEN to_string(round(convert(n, "GiB"))) \o Display("GiB")
       ELSE IF m \in Range(13, 16) THEN to_string(round(convert(n, "TiB"))) \o Display("TiB")
       ELSE IF m \in Range(16, 19) THEN to_string(round(convert(n, "PiB"))) \o Display("PiB")
       ELSE IF m \in Range(19, 22) THEN to_string(round(convert(n, "EiB"))) \o Display("EiB")
       ELSE to_string(n) \o <<"B">>

(***************************************************************************)
(* The arguments format is applied to: the powers of ten up to the largest *)
(* u64, small multiples of the powers of 1024, zero and u64::MAX, and the  *)
(* values within Delta of each of them.                                    *)
(***************************************************************************)
Delta == 2

RECURSIVE Pow(_, _)
Pow(b, k) == IF k = 0 THEN <<1>> ELSE MulSmall(Pow(b, k - 1), b)

Multiples == {1, 2, 512, 953, 999, 1000, 1023, 1536}

Boundaries ==
    {<<>>, U64Max}
        \cup {Pow(10, k) : k \in 0 .. (digit(U64Max) - 1)}
        \cup {MulSmall(Pow(Base, k), j) : k \in 0 .. 6, j \in Multiples}

Offsets == {AddSmall(<<>>, d) : d \in 0 .. Delta}

Inputs ==
    {x \in {Add(b, d) : b \in Boundaries, d \in Offsets}
            \cup {Sub(p[1], p[2]) : p \in {q \in Boundaries \X Offsets : Leq(q[2], q[1])}}
        : Leq(x, U64Max)}

FormatInit ==
    /\ fpc = "start"
    /\ fn \in Inputs
    /\ fout = <<>>
    /\ PermIdle
    /\ PathIdle
    /\ FsIdle

\* let s = UnitOfInfo::format(n);
Format ==
    /\ fpc = "start"
    /\ fout' = format(fn)
    /\ fpc' = "done"
    /\ UNCHANGED <<fn, mode, perms, pvars, svars>>

FormatNext == Format

SpecFormat == FormatInit /\ [][FormatNext]_vars

(***************************************************************************)
(* Properties of UnitOfInfo::format.                                       *)
(***************************************************************************)
DigitValue(c) == CHOOSE i \in 0 .. 9 : DigitChar[i + 1] = c

IsDigits(s) == Len(s) > 0 /\ \A i \in 1 .. Len(s) : \E d \in 1 .. 10 : DigitChar[d] = s[i]

RECURSIVE ParseDec(_)
ParseDec(s) ==
    IF s = <<>> THEN <<>>
    ELSE AddSmall(MulSmall(ParseDec(SubSeq(s, 1, Len(s) - 1)), 10), DigitValue(s[Len(s)]))

UnitSuffix == <<"KiB", "MiB", "GiB", "TiB", "PiB", "EiB">>

\* the unit, 1 (KiB) .. 6 (EiB), that the string s is rendered with; 0 for none
UnitShown(s) ==
    IF \E k \in 1 .. 6 : EndsWith(s, Display(UnitSuffix[k]))
    THEN CHOOSE k \in 1 .. 6 : EndsWith(s, Display(UnitSuffix[k]))
    ELSE 0

\* the characters of s in front of its unit (or of its "B")
MagnitudeShown(s) ==
    IF UnitShown(s) > 0 THEN SubSeq(s, 1, Len(s) - 3) ELSE SubSeq(s, 1, Len(s) - 1)

\* C1: every n in [1_048_576, 1_073_741_823] is formatted with the suffix MiB.
C1_MiBRange ==
    (/\ fpc = "done"
     /\ Leq(Lit(<<1, 048, 576>>), fn)
     /\ Leq(fn, Lit(<<1, 073, 741, 823>>)))
        => EndsWith(fout, <<"M", "i", "B">>)

\* C2: format(0) is "0B", format(1024) is "1KiB", format(1048576) is "1MiB",
\* format(1073741824) is "1GiB", and format of each unit's multiplier 1024^k is
\* "1" followed by that unit's suffix.
C2_ExactUnits ==
    fpc = "done" =>
        /\ fn = <<>> => fout = <<"0", "B">>
        /\ fn = Lit(<<1, 024>>) => fout = <<"1", "K", "i", "B">>
        /\ fn = Lit(<<1, 048, 576>>) => fout = <<"1", "M", "i", "B">>
        /\ fn = Lit(<<1, 073, 741, 824>>) => fout = <<"1", "G", "i", "B">>
        /\ \A k \in 1 .. 6 : fn = Pow(Base, k) => fout = <<"1">> \o Display(UnitSuffix[k])

C2_Witness == fpc = "done" /\ fn = Pow(Base, 6) /\ fout = <<"1", "E", "i", "B">>

\* C3: when format renders n with a unit of multiplier m, the magnitude q it
\* shows is floor(n / m), that is q * m <= n < (q + 1) * m: the division
\* truncates and the rounding after it changes nothing.
C3_MagnitudeIsFloor ==
    (fpc = "done" /\ UnitShown(fout) > 0) =>
        LET m == Pow(Base, UnitShown(fout))
            q == ParseDec(MagnitudeShown(fout))
        IN /\ IsDigits(MagnitudeShown(fout))
           /\ Leq(Mul(q, m), fn)
           /\ Less(fn, Mul(AddSmall(q, 1), m))

\* 1536 bytes are 1.5 KiB: shown as 1KiB, not as the nearest whole number 2
C3_Witness == fpc = "done" /\ fn = Lit(<<1, 536>>) /\ fout = <<"1", "K", "i", "B">>

\* C4: format(n) is the bare count "<n>B" exactly when n < 1000; every larger n
\* carries the unit of its digit count (4-6 KiB, 7-9 MiB, 10-12 GiB, 13-15 TiB,
\* 16-18 PiB, 19-21 EiB), and no u64 has more than 21 digits.
C4_Buckets ==
    fpc = "done" =>
        /\ (/\ UnitShown(fout) = 0
            /\ fout[Len(fout)] = "B"
            /\ IsDigits(MagnitudeShown(fout))
            /\ MagnitudeShown(fout) = to_string(fn)
            /\ ParseDec(MagnitudeShown(fout)) = fn)
              <=> Less(fn, Lit(<<1, 000>>))
        /\ \A k \in 1 .. 6 :
              (Leq(Pow(10, 3 * k), fn) /\ Less(fn, Pow(10, 3 * k + 3)))
                  => UnitShown(fout) = k
        /\ Less(fn, Pow(10, 21))

\* the largest u64 has 20 digits and lands in the EiB bucket
C4_Witness == fpc = "done" /\ fn = U64Max /\ fout = <<"1", "5", "E", "i", "B">>

(***************************************************************************)
(* Path lookup.  The working directory <<>> is a directory and is not an   *)
(* entry of fs.  A lookup walks the components, following a symbolic link  *)
(* in every component but the last, and in the last one only on request.   *)
(* The target of a link is the text it was made with: an absolute one      *)
(* starts with "/" and is looked up from the working directory the paths   *)
(* are below, any other one from the directory that holds the link.        *)
(***************************************************************************)
Absolute(p) == <<"/">> \o p

\* where the lookup of a link's target starts, and the components it walks
TargetBase(cur, t) == IF t # <<>> /\ t[1] = "/" THEN <<>> ELSE cur
TargetRest(t) == IF t # <<>> /\ t[1] = "/" THEN Tail(t) ELSE t

Put(f, p, e) == [q \in DOMAIN f \cup {p} |-> IF q = p THEN e ELSE f[q]]

At(f, p) == IF p = <<>> THEN DirEntry ELSE IF p \in DOMAIN f THEN f[p] ELSE NoEntry

IsPrefix(a, b) == Len(a) <= Len(b) /\ SubSeq(b, 1, Len(a)) = a

NotResolved == [ok |-> FALSE, path |-> <<>>]

RECURSIVE Walk(_, _, _, _, _)
Walk(f, cur, rest, follow, fuel) ==
    IF rest = <<>> THEN [ok |-> TRUE, path |-> cur]
    ELSE LET q == Append(cur, rest[1])
             e == At(f, q)
         IN IF Len(rest) = 1
            THEN IF e.kind = "symlink" /\ follow
                 THEN IF fuel = 0 THEN NotResolved
                      ELSE Walk(f, TargetBase(cur, e.target), TargetRest(e.target), TRUE, fuel - 1)
                 ELSE [ok |-> TRUE, path |-> q]
            ELSE IF e.kind = "dir" THEN Walk(f, q, Tail(rest), follow, fuel)
            ELSE IF e.kind = "symlink"
                 THEN IF fuel = 0 THEN NotResolved
                      ELSE LET r == Walk(f, TargetBase(cur, e.target), TargetRest(e.target), TRUE, fuel - 1)
                           IN IF r.ok /\ At(f, r.path).kind = "dir"
                              THEN Walk(f, r.path, Tail(rest), follow, fuel - 1)
                              ELSE NotResolved
            ELSE NotResolved

\* the place a path names, symbolic links in its last component not followed
LPlace(f, p) == Walk(f, <<>>, TargetRest(p), FALSE, MaxEntries)
\* the place a path names, every symbolic link followed
Place(f, p) == Walk(f, <<>>, TargetRest(p), TRUE, MaxEntries)

\* fs::symlink_metadata and fs::metadata
LStat(f, p) == LET r == LPlace(f, p) IN IF r.ok THEN At(f, r.path) ELSE NoEntry
Stat(f, p) == LET r == Place(f, p) IN IF r.ok THEN At(f, r.path) ELSE NoEntry

\* Path::exists, Path::is_dir, Path::is_file, Path::is_symlink
exists(f, p) == Stat(f, p).kind # "none"
is_dir(f, p) == Stat(f, p).kind = "dir"
is_file(f, p) == Stat(f, p).kind = "file"
is_symlink(f, p) == LStat(f, p).kind = "symlink"

\* which that answers File for a path that names nothing
which_or_file(f, p) ==
    IF exists(f, p)
    THEN IF is_dir(f, p) THEN Ok("Directory")
         ELSE IF is_symlink(f, p) THEN Ok("Symlink")
         ELSE Ok("File")
    ELSE Ok("File")

\* file_types.rs FileTypes::which
which(f, p) ==
    IF exists(f, p)
    THEN IF is_dir(f, p) THEN Ok("Directory")
         ELSE IF is_symlink(f, p) THEN Ok("Symlink")
         ELSE Ok("File")
    ELSE Err("NotFound")

\* lib.rs FileTypes::which
lib_which(f, p) ==
    IF exists(f, p)
    THEN IF is_dir(f, p) THEN "Directory"
         ELSE IF is_symlink(f, p) THEN "Symlink"
         ELSE "File"
    ELSE "None"

\* Path::file_name of a path that ends in a normal component
file_name(p) == p[Len(p)]

Entries(f) == DOMAIN f
Children(f, d) == {p \in Entries(f) : Len(p) = Len(d) + 1 /\ IsPrefix(d, p)}
Below(f, d) == {p \in Entries(f) : IsPrefix(d, p)}

(***************************************************************************)
(* fs::rename(old, new): the entry old names (a link itself, not what it   *)
(* points to) and everything below it move to new.  A directory does not   *)
(* move into itself; it replaces only an empty directory; anything else    *)
(* replaces anything but a directory.                                      *)
(***************************************************************************)
Moved(f, ro, rn) ==
    LET kept == {q \in DOMAIN f : ~IsPrefix(rn, q) /\ ~IsPrefix(ro, q)}
        came == {rn \o SubSeq(q, Len(ro) + 1, Len(q)) : q \in {x \in DOMAIN f : IsPrefix(ro, x)}}
    IN [q \in kept \cup came |->
          IF q \in came THEN f[ro \o SubSeq(q, Len(rn) + 1, Len(q))] ELSE f[q]]

rename(f, old, new) ==
    LET o == LPlace(f, old)
        n == LPlace(f, new)
    IN IF ~o.ok \/ ~n.ok \/ At(f, o.path).kind = "none" \/ n.path = <<>> \/ o.path = <<>>
       THEN [ok |-> FALSE, fs |-> f]
       ELSE IF o.path = n.path THEN [ok |-> TRUE, fs |-> f]
       ELSE IF At(f, o.path).kind = "dir"
            THEN IF \/ IsPrefix(o.path, n.path)
                    \/ At(f, n.path).kind \notin {"none", "dir"}
                    \/ Children(f, n.path) # {}
                 THEN [ok |-> FALSE, fs |-> f]
                 ELSE [ok |-> TRUE, fs |-> Moved(f, o.path, n.path)]
            ELSE IF At(f, n.path).kind = "dir"
                 THEN [ok |-> FALSE, fs |-> f]
                 ELSE [ok |-> TRUE, fs |-> Moved(f, o.path, n.path)]

\* the move stays inside the modelled tree
RenameFits(f, old, new) ==
    LET o == LPlace(f, old)
        n == LPlace(f, new)
    IN (o.ok /\ n.ok) =>
          \A q \in Below(f, o.path) : Len(n.path) + Len(q) - Len(o.path) <= MaxDepth

(***************************************************************************)
(* move_to in the three revisions.  Each gives the status, the resolved    *)
(* destination, the path of the handle returned (or of self afterwards)    *)
(* and the filesystem it leaves.                                           *)
(***************************************************************************)
MoveResult(status, f, to, ret) == [status |-> status, fs |-> f, to |-> to, ret |-> ret]

\* a rename whose caller takes the new path whatever rename answered
Renamed_eager(f, self, to) ==
    LET r == rename(f, self, to)
    IN IF r.ok THEN MoveResult("ok", r.fs, to, to)
       ELSE MoveResult("FileyError", f, to, to)

\* fs::rename(self, to)?, and the path the handle has afterwards
Renamed(f, self, to) ==
    LET r == rename(f, self, to)
    IN IF r.ok THEN MoveResult("ok", r.fs, to, to)
       ELSE MoveResult("FileyError", f, to, self)

\* move_to that never looks for a directory at the destination
fo_move_to_verbatim(f, self, dest) ==
    IF exists(f, dest)
    THEN MoveResult("AlreadyExists", f, dest, self)
    ELSE Renamed(f, self, dest)

\* file_operations.rs Filey::move_to
fo_move_to(f, self, dest) ==
    IF exists(f, dest)
    THEN IF which(f, dest) = Ok("Directory")
         THEN LET to == Append(dest, file_name(self))
              IN IF exists(f, to)
                 THEN MoveResult("SameNameAlreadyExists", f, to, self)
                 ELSE Renamed(f, self, to)
         ELSE MoveResult("AlreadyExists", f, dest, self)
    ELSE Renamed(f, self, dest)

\* filey.rs Filey::move_to
fy_move_to(f, self, dest) ==
    IF is_dir(f, dest)
    THEN Renamed(f, self, Append(dest, file_name(self)))
    ELSE Renamed(f, self, dest)

\* lib.rs FileOperations::move_to
lib_move_to(f, self, dest) ==
    IF lib_which(f, dest) = "Directory"
    THEN Renamed(f, self, Append(dest, file_name(self)))
    ELSE Renamed(f, self, dest)

(***************************************************************************)
(* The calls.  A caller builds a handle with Filey::new, makes one call on *)
(* it and looks at the outcome, which `last` keeps until the next handle   *)
(* is built (possibly for the same path, as when one handle is used        *)
(* again).                                                                 *)
(***************************************************************************)
Ready == last.op = "new"

Call(op, facade, dest, r) ==
    [op |-> op, facade |-> facade, self |-> handle, dest |-> dest,
     status |-> r.status, to |-> r.to, ret |-> r.ret, pre |-> fs]

\* Filey::new(p)
New ==
    /\ Ready
    /\ \E p \in Paths :
        /\ handle' = p
        /\ last' = [NoCall EXCEPT !.self = p]
        /\ UNCHANGED <<fs, fvars, pvars>>

\* the caller has looked at the outcome and goes on with the handle
Return ==
    /\ ~Ready
    /\ last' = [NoCall EXCEPT !.self = handle]
    /\ UNCHANGED <<fs, handle, fvars, pvars>>

\* a lookup that ends inside the modelled tree (or ends nowhere)
Fits(r) == r.ok => r.path \in Paths

\* fs::File::create: the file is created, or emptied when it is there
file_create(f, p) ==
    LET r == Place(f, p)
    IN IF r.ok /\ At(f, r.path).kind \in {"none", "file"}
       THEN [ok |-> TRUE, fs |-> Put(f, r.path, FileEntry(<<>>))]
       ELSE [ok |-> FALSE, fs |-> f]

\* mkdir(2)
mkdir(f, p) ==
    LET r == LPlace(f, p)
    IN IF ~r.ok THEN [status |-> "NotFound", fs |-> f]
       ELSE IF At(f, r.path).kind # "none" THEN [status |-> "AlreadyExists", fs |-> f]
       ELSE [status |-> "ok", fs |-> Put(f, r.path, DirEntry)]

\* fs::create_dir_all: mkdir; when a parent is missing, the parents first and
\* mkdir again; a failure on a path that is a directory counts as success
RECURSIVE create_dir_all(_, _)
create_dir_all(f, p) ==
    IF p = <<>> THEN [ok |-> TRUE, fs |-> f]
    ELSE LET m == mkdir(f, p)
         IN IF m.status = "ok" THEN [ok |-> TRUE, fs |-> m.fs]
            ELSE IF m.status # "NotFound" THEN [ok |-> is_dir(f, p), fs |-> f]
            ELSE LET par == create_dir_all(f, SubSeq(p, 1, Len(p) - 1))
                 IN IF ~par.ok THEN [ok |-> FALSE, fs |-> par.fs]
                    ELSE LET m2 == mkdir(par.fs, p)
                         IN IF m2.status = "ok" THEN [ok |-> TRUE, fs |-> m2.fs]
                            ELSE [ok |-> is_dir(par.fs, p), fs |-> par.fs]

\* file_operations.rs Filey::create
fo_create(f, self, kind) ==
    CASE kind = "File" ->
            LET r == file_create(f, self)
            IN MoveResult(IF r.ok THEN "ok" ELSE "FileyError", r.fs, self, self)
      [] kind = "Directory" ->
            LET r == create_dir_all(f, self)
            IN MoveResult(IF r.ok THEN "ok" ELSE "FileyError", r.fs, self, self)
      [] kind = "Symlink" -> MoveResult("ok", f, self, self)

FoCreate ==
    /\ Ready
    /\ \E kind \in {"File", "Directory", "Symlink"} :
        LET r == fo_create(fs, handle, kind)
        IN /\ Fits(Place(fs, handle)) /\ Fits(LPlace(fs, handle))
           /\ Cardinality(Entries(r.fs)) <= MaxEntries
           /\ fs' = r.fs
           /\ last' = Call("create", "file_operations", <<kind>>, r)
           /\ UNCHANGED <<handle, fvars, pvars>>

\* std::os::unix::fs::symlink(original, link): the link holds the text of
\* original, which need not exist
os_symlink(f, original, link) ==
    LET r == LPlace(f, link)
    IN IF r.ok /\ At(f, r.path).kind = "none"
       THEN [ok |-> TRUE, fs |-> Put(f, r.path, LinkEntry(original))]
       ELSE [ok |-> FALSE, fs |-> f]

\* file_operations.rs Filey::symlink: both paths are absolutized first, which
\* needs HOME; an absolutized path below the working directory is the path
fo_symlink(f, self, link) ==
    IF ~home_dir.ok THEN MoveResult("FileyError", f, link, self)
    ELSE LET r == os_symlink(f, Absolute(self), link)
         IN MoveResult(IF r.ok THEN "ok" ELSE "FileyError", r.fs, link, self)

FoSymlink ==
    /\ Ready
    /\ \E link \in Paths :
        LET r == fo_symlink(fs, handle, link)
        IN /\ Fits(LPlace(fs, link))
           /\ Cardinality(Entries(r.fs)) <= MaxEntries
           /\ fs' = r.fs
           /\ last' = Call("symlink", "file_operations", link, r)
           /\ UNCHANGED <<handle, fvars, pvars>>

\* file_operations.rs impl Write for Filey, write: the file is opened for
\* writing, created when missing and not truncated; buf goes to its start
fo_write(f, self, buf) ==
    LET r == Place(f, self)
    IN IF r.ok /\ At(f, r.path).kind \in {"none", "file"}
       THEN LET old == At(f, r.path).content
                new == buf \o SubSeq(old, Len(buf) + 1, Len(old))
            IN MoveResult("ok", Put(f, r.path, FileEntry(new)), self, self)
       ELSE MoveResult("FileyError", f, self, self)

FoWrite ==
    /\ Ready
    /\ \E buf \in Bufs :
        LET r == fo_write(fs, handle, buf)
        IN /\ Fits(Place(fs, handle))
           /\ Cardinality(Entries(r.fs)) <= MaxEntries
           /\ fs' = r.fs
           /\ last' = Call("write", "file_operations", buf, r)
           /\ UNCHANGED <<handle, fvars, pvars>>

FoMoveTo ==
    /\ Ready
    /\ \E dest \in Paths :
        LET r == fo_move_to(fs, handle, dest)
        IN /\ RenameFits(fs, handle, r.to)
           /\ fs' = r.fs
           /\ last' = Call("move_to", "file_operations", dest, r)
           /\ UNCHANGED <<handle, fvars, pvars>>

FyMoveTo ==
    /\ Ready
    /\ \E dest \in Paths :
        LET r == fy_move_to(fs, handle, dest)
        IN /\ RenameFits(fs, handle, r.to)
           /\ fs' = r.fs
           /\ handle' = r.ret
           /\ last' = Call("move_to", "filey", dest, r)
           /\ UNCHANGED <<fvars, pvars>>

LibMoveTo ==
    /\ Ready
    /\ \E dest \in Paths :
        LET r == lib_move_to(fs, handle, dest)
        IN /\ RenameFits(fs, handle, r.to)
           /\ fs' = r.fs
           /\ last' = Call("move_to", "lib", dest, r)
           /\ UNCHANGED <<handle, fvars, pvars>>

FsInit ==
    /\ fs = EmptyFs
    /\ handle \in Paths
    /\ last = [NoCall EXCEPT !.self = handle]
    /\ FormatIdle
    /\ home = [set |-> TRUE, value |-> <<"/", "h">>]
    /\ cwd = <<"/">>
    /\ ppath = <<>>
    /\ plast = [op |-> "new", facade |-> "none", status |-> "ok", from |-> <<>>]

FsNext ==
    \/ New
    \/ Return
    \/ FoCreate
    \/ FoSymlink
    \/ FoWrite
    \/ FoMoveTo
    \/ FyMoveTo
    \/ LibMoveTo

SpecFs == FsInit /\ [][FsNext]_vars

(***************************************************************************)
(* Properties of move_to.  `last` holds the call and the filesystem it     *)
(* found; fs is the filesystem it left.                                    *)
(***************************************************************************)
\* the filesystem without the entry at place d and everything below it
Without(f, d) == [q \in {x \in DOMAIN f : ~IsPrefix(d, x)} |-> f[q]]

\* the entry at place a of f, and everything below it, is at place b of g
SameTree(f, a, g, b) ==
    \A q \in Below(f, a) : At(g, b \o SubSeq(q, Len(a) + 1, Len(q))) = f[q]

\* the destination path of the rule: destination/<source file name> when the
\* destination is a directory, the destination otherwise
Resolved(f, self, dest) ==
    IF is_dir(f, dest) THEN Append(dest, file_name(self)) ELSE dest

\* a move, in the two current revisions, of a source that exists into an
\* existing directory that has no entry named like the source
MoveIntoDirectory ==
    /\ last.op = "move_to"
    /\ last.facade \in {"file_operations", "filey"}
    /\ LStat(last.pre, last.self).kind # "none"
    /\ is_dir(last.pre, last.dest)
    /\ LStat(last.pre, Append(last.dest, file_name(last.self))).kind = "none"

\* the call succeeded, the handle is destination/<source file name>, the
\* source's entry is at that path and the original path names nothing
MovedThere ==
    /\ last.status = "ok"
    /\ last.ret = Append(last.dest, file_name(last.self))
    /\ (last.facade = "filey" => handle = last.ret)
    /\ LPlace(fs, last.ret).ok
    /\ SameTree(last.pre, LPlace(last.pre, last.self).path, fs, LPlace(fs, last.ret).path)
    /\ LStat(fs, last.self).kind = "none"

\* C5, as stated: move_to of an existing source into an existing directory
\* that has no entry named like the source succeeds, the resulting handle is
\* destination/<source file name>, the source's entry is at that path and the
\* original path no longer exists.
C5_MoveIntoDirectory == MoveIntoDirectory => MovedThere

\* C5, amended: the same, for a destination that is a directory without the
\* source: one that is not the source, is not inside the source, and is not
\* reached through the source when the source is a symbolic link.
C5_MoveIntoOtherDirectory ==
    (/\ MoveIntoDirectory
     /\ is_dir(Without(last.pre, LPlace(last.pre, last.self).path), last.dest))
        => MovedThere

\* a file with content has been moved into a directory by the revision that
\* returns a new handle
C5_Witness ==
    /\ MoveIntoDirectory
    /\ last.facade = "file_operations"
    /\ LStat(last.pre, last.self) = FileEntry(<<1>>)
    /\ last.status = "ok"
    /\ LStat(fs, last.ret) = FileEntry(<<1>>)
    /\ last.ret # last.self

\* C6: in file_operations.rs, move_to fails with an already-exists error
\* whenever an entry is at the resolved destination path (the destination
\* when it is not a directory, destination/<source file name> when it is),
\* and the failure leaves the source and that entry as they were.
C6_FailsOnExisting ==
    (/\ last.op = "move_to"
     /\ last.facade = "file_operations"
     /\ LStat(last.pre, Resolved(last.pre, last.self, last.dest)).kind # "none")
        => /\ last.status \in {"AlreadyExists", "SameNameAlreadyExists"}
           /\ fs = last.pre

\* C7: a move_to that returns success has not replaced or destroyed an entry
\* that was at the resolved destination path before the call, be it a regular
\* file or a symbolic link whose target is missing.
C7_NeverOverwrites ==
    LET n == LPlace(last.pre, Resolved(last.pre, last.self, last.dest))
    IN (/\ last.op = "move_to"
        /\ last.status = "ok"
        /\ n.ok
        /\ At(last.pre, n.path).kind # "none")
           => At(fs, n.path) = At(last.pre, n.path)

(***************************************************************************)
(* The queries and remove of file_operations.rs, remove of filey.rs.  A    *)
(* query leaves its answer in last.ret: the kind, the size as <<n>>, the   *)
(* styled size as text.                                                    *)
(***************************************************************************)
Answer(status, value) == [status |-> status, value |-> value]

\* file_operations.rs Filey::file_type
file_type(f, self) == which(f, self)

\* fs::read_dir: the entries of the directory the path leads to
read_dir(f, p) == Children(f, Place(f, p).path)

\* file_operations.rs Filey::list
list(f, self) ==
    LET t == file_type(f, self)
    IN IF ~t.ok THEN Err(t.value)
       ELSE IF t.value # "Directory" THEN Err("NotADirectory")
       ELSE Ok(read_dir(f, self))

\* fs::metadata(p).len() of a path that leads to a regular file
metadata_len(f, p) == Len(Stat(f, p).content)

\* size that takes the length from the metadata for every kind
fo_size_metadata(f, self) ==
    LET t == file_type(f, self)
    IN IF ~t.ok THEN Answer(t.value, <<>>)
       ELSE Answer("ok", <<metadata_len(f, self)>>)

\* file_operations.rs Filey::size
fo_size(f, self) ==
    LET t == file_type(f, self)
    IN IF ~t.ok THEN Answer(t.value, <<>>)
       ELSE IF t.value = "Directory"
            THEN LET l == list(f, self)
                 IN IF l.ok THEN Answer("ok", <<Cardinality(l.value)>>)
                    ELSE Answer(l.value, <<>>)
            ELSE Answer("ok", <<metadata_len(f, self)>>)

\* file_operations.rs Filey::size_styled
fo_size_styled(f, self) ==
    LET t == file_type(f, self)
    IN IF ~t.ok THEN Answer(t.value, <<>>)
       ELSE IF t.value = "Directory"
            THEN LET l == list(f, self)
                 IN IF l.ok THEN Answer("ok", to_string(AddSmall(<<>>, Cardinality(l.value))))
                    ELSE Answer(l.value, <<>>)
            ELSE LET n == fo_size(f, self)
                 IN IF n.status = "ok" THEN Answer("ok", format(AddSmall(<<>>, n.value[1])))
                    ELSE n

\* fs::remove_file: the name goes; a symbolic link is not followed
remove_file(f, p) ==
    LET r == LPlace(f, p)
    IN IF r.ok /\ At(f, r.path).kind \in {"file", "symlink"}
       THEN [ok |-> TRUE, fs |-> Without(f, r.path)]
       ELSE [ok |-> FALSE, fs |-> f]

\* fs::remove_dir_all: a symbolic link is removed itself, a directory with
\* everything below it
remove_dir_all(f, p) ==
    LET r == LPlace(f, p)
    IN IF r.ok /\ At(f, r.path).kind \in {"dir", "symlink"} /\ r.path # <<>>
       THEN [ok |-> TRUE, fs |-> Without(f, r.path)]
       ELSE [ok |-> FALSE, fs |-> f]

\* remove that reports success and removes nothing
fo_remove_nothing(f, self) ==
    LET t == file_type(f, self)
    IN IF ~t.ok THEN MoveResult(t.value, f, self, self)
       ELSE MoveResult("ok", f, self, self)

\* file_operations.rs Filey::remove
fo_remove(f, self) ==
    LET t == file_type(f, self)
    IN IF ~t.ok THEN MoveResult(t.value, f, self, self)
       ELSE LET r == IF t.value = "Directory" THEN remove_dir_all(f, self)
                     ELSE remove_file(f, self)
            IN MoveResult(IF r.ok THEN "ok" ELSE "FileyError", r.fs, self, self)

\* filey.rs Filey::remove
fy_remove(f, self) ==
    LET r == IF is_dir(f, self) THEN remove_dir_all(f, self) ELSE remove_file(f, self)
    IN MoveResult(IF r.ok THEN "ok" ELSE "FileyError", r.fs, self, self)

\* fs::copy(from, to): from leads to a regular file; to is opened for
\* writing, created when missing and emptied when there, links followed, and
\* gets the bytes (none when to is the file from leads to, emptied before
\* it is read)
copy(f, from, to) ==
    LET s == Place(f, from)
        t == Place(f, to)
    IN IF s.ok /\ t.ok /\ At(f, s.path).kind = "file"
          /\ At(f, t.path).kind \in {"none", "file"} /\ t.path # <<>>
       THEN [ok |-> TRUE,
             fs |-> Put(f, t.path,
                        FileEntry(IF s.path = t.path THEN <<>> ELSE At(f, s.path).content))]
       ELSE [ok |-> FALSE, fs |-> f]

\* file_operations.rs Filey::copy
fo_copy(f, self, dest) ==
    LET r == copy(f, self, dest)
    IN MoveResult(IF r.ok THEN "ok" ELSE "FileyError", r.fs, dest, IF r.ok THEN dest ELSE self)

\* filey.rs Filey::copy
fy_copy(f, self, dest) ==
    LET to == IF is_dir(f, dest) THEN Append(dest, file_name(self)) ELSE dest
        r == copy(f, self, to)
    IN MoveResult(IF r.ok THEN "ok" ELSE "FileyError", r.fs, to, self)

Query(op, facade, a) ==
    /\ Ready
    /\ last' = Call(op, facade, <<>>, MoveResult(a.status, fs, handle, a.value))
    /\ UNCHANGED <<fs, handle, fvars, pvars>>

FoFileType ==
    LET t == file_type(fs, handle)
    IN Query("file_type", "file_operations",
             IF t.ok THEN Answer("ok", <<t.value>>) ELSE Answer(t.value, <<>>))

FoSize == Query("size", "file_operations", fo_size(fs, handle))

FoSizeStyled == Query("size_styled", "file_operations", fo_size_styled(fs, handle))

FoRemove ==
    /\ Ready
    /\ LET r == fo_remove(fs, handle)
       IN /\ fs' = r.fs
          /\ last' = Call("remove", "file_operations", <<>>, r)
          /\ UNCHANGED <<handle, fvars, pvars>>

FyRemove ==
    /\ Ready
    /\ LET r == fy_remove(fs, handle)
       IN /\ fs' = r.fs
          /\ last' = Call("remove", "filey", <<>>, r)
          /\ UNCHANGED <<handle, fvars, pvars>>

FoCopy ==
    /\ Ready
    /\ \E dest \in Paths :
        LET r == fo_copy(fs, handle, dest)
        IN /\ Fits(Place(fs, r.to))
           /\ Cardinality(Entries(r.fs)) <= MaxEntries
           /\ fs' = r.fs
           /\ last' = Call("copy", "file_operations", dest, r)
           /\ UNCHANGED <<handle, fvars, pvars>>

FyCopy ==
    /\ Ready
    /\ \E dest \in Paths :
        LET r == fy_copy(fs, handle, dest)
        IN /\ Fits(Place(fs, r.to))
           /\ Cardinality(Entries(r.fs)) <= MaxEntries
           /\ fs' = r.fs
           /\ last' = Call("copy", "filey", dest, r)
           /\ UNCHANGED <<handle, fvars, pvars>>

QueryNext ==
    \/ New
    \/ Return
    \/ FoCreate
    \/ FoSymlink
    \/ FoWrite
    \/ FoMoveTo
    \/ FoCopy
    \/ FyCopy
    \/ FoRemove
    \/ FyRemove
    \/ FoFileType
    \/ FoSize
    \/ FoSizeStyled

SpecQuery == FsInit /\ [][QueryNext]_vars

C15_WhichClassifies ==
    last.op = "file_type" =>
        LET k == LStat(fs, last.self).kind
        IN /\ k = "file" => (last.status = "ok" /\ last.ret = <<"File">>)
           /\ k = "dir" => (last.status = "ok" /\ last.ret = <<"Directory">>)
           /\ k = "symlink" => (last.status = "ok" /\ last.ret = <<"Symlink">>)
           /\ k = "none" => last.status = "NotFound"

\* C17: copy never overwrites: when a regular file is at the resolved
\* destination path (destination/<source file name> for a destination that
\* is a directory, the destination otherwise), copy fails with an
\* already-exists error and that file keeps its content.
C17_CopyNeverOverwrites ==
    LET n == LPlace(last.pre, Resolved(last.pre, last.self, last.dest))
    IN (/\ last.op = "copy"
        /\ n.ok
        /\ At(last.pre, n.path).kind = "file")
           => /\ last.status \in {"AlreadyExists", "SameNameAlreadyExists"}
              /\ At(fs, n.path) = At(last.pre, n.path)

\* C18: after a successful remove nothing is at the handle's path, nor below
\* it, and every entry elsewhere is as it was; remove on a path at which
\* nothing exists fails and changes nothing.
C18_Remove ==
    last.op = "remove" =>
        LET r == LPlace(last.pre, last.self)
        IN /\ last.status = "ok" =>
                /\ LStat(fs, last.self).kind = "none"
                /\ r.ok
                /\ \A q \in DOMAIN fs : ~IsPrefix(r.path, q)
                /\ \A q \in DOMAIN last.pre :
                      ~IsPrefix(r.path, q) => (q \in DOMAIN fs /\ fs[q] = last.pre[q])
           /\ LStat(last.pre, last.self).kind = "none" =>
                /\ last.status # "ok"
                /\ fs = last.pre

\* a directory has been removed with the entry inside it
C18_Witness ==
    /\ last.op = "remove"
    /\ last.status = "ok"
    /\ LStat(last.pre, last.self).kind = "dir"
    /\ Children(last.pre, last.self) # {}
    /\ fs = EmptyFs

\* C19: whenever create(kind) returns success, an entry of that kind is at
\* the handle's path afterwards, for File, Directory and Symlink.
C19_CreateCreates ==
    (last.op = "create" /\ last.status = "ok") =>
        /\ last.dest = <<"File">> => Stat(fs, last.self).kind = "file"
        /\ last.dest = <<"Directory">> => Stat(fs, last.self).kind = "dir"
        /\ last.dest = <<"Symlink">> => LStat(fs, last.self).kind = "symlink"

(***************************************************************************)
(* symlink of filey.rs and hard_link of both revisions.  A hard link is a  *)
(* second name of the entry; the specification they run in has no action   *)
(* that writes bytes, every file in it is empty, and a second name of a    *)
(* file is then the same state as a file of its own.                       *)
(***************************************************************************)
\* fs::hard_link(original, link): original is not followed when it is a
\* symbolic link and is not a directory; nothing is at link
os_hard_link(f, original, link) ==
    LET o == LPlace(f, original)
        n == LPlace(f, link)
    IN IF o.ok /\ n.ok /\ At(f, o.path).kind \in {"file", "symlink"}
          /\ At(f, n.path).kind = "none" /\ n.path # <<>>
       THEN [ok |-> TRUE, fs |-> Put(f, n.path, At(f, o.path))]
       ELSE [ok |-> FALSE, fs |-> f]

\* file_operations.rs Filey::hard_link
fo_hard_link(f, self, link) ==
    IF ~home_dir.ok THEN MoveResult("FileyError", f, link, self)
    ELSE LET r == os_hard_link(f, self, link)
         IN MoveResult(IF r.ok THEN "ok" ELSE "FileyError", r.fs, link, self)

\* filey.rs Filey::symlink: the link holds the handle's path as it is
fy_symlink(f, self, dest) ==
    LET link == IF is_dir(f, dest) THEN Append(dest, file_name(self)) ELSE dest
        r == os_symlink(f, self, link)
    IN MoveResult(IF r.ok THEN "ok" ELSE "FileyError", r.fs, link, self)

\* filey.rs Filey::hard_link
fy_hard_link(f, self, dest) ==
    LET link == IF is_dir(f, dest) THEN Append(dest, file_name(self)) ELSE dest
        r == os_hard_link(f, self, link)
    IN MoveResult(IF r.ok THEN "ok" ELSE "FileyError", r.fs, link, self)

\* a call that makes an entry at r.to, inside the modelled tree
Making(op, facade, dest, r) ==
    /\ Fits(LPlace(fs, r.to))
    /\ Cardinality(Entries(r.fs)) <= MaxEntries
    /\ fs' = r.fs
    /\ last' = Call(op, facade, dest, r)
    /\ UNCHANGED <<handle, fvars, pvars>>

FySymlink ==
    /\ Ready
    /\ \E dest \in Paths : Making("symlink", "filey", dest, fy_symlink(fs, handle, dest))

FoHardLink ==
    /\ Ready
    /\ \E dest \in Paths :
          Making("hard_link", "file_operations", dest, fo_hard_link(fs, handle, dest))

FyHardLink ==
    /\ Ready
    /\ \E dest \in Paths : Making("hard_link", "filey", dest, fy_hard_link(fs, handle, dest))

LinkNext ==
    \/ New
    \/ Return
    \/ FoCreate
    \/ FoCopy
    \/ FyCopy
    \/ FoSymlink
    \/ FySymlink
    \/ FoHardLink
    \/ FyHardLink

SpecLink == FsInit /\ [][LinkNext]_vars

\* the source is one the operation can take: a regular file for copy, an
\* entry that is not a directory for hard_link, any path for symlink
SourceFits ==
    CASE last.op = "copy" -> is_file(last.pre, last.self)
      [] last.op = "hard_link" -> LStat(last.pre, last.self).kind \in {"file", "symlink"}
      [] OTHER -> TRUE

\* the kind of entry the operation makes
MadeKind == IF last.op = "symlink" THEN "symlink" ELSE LStat(last.pre, last.self).kind

\* C16: copy, symlink and hard_link resolve the destination as move_to does:
\* into an existing directory that has no entry named like the source they
\* make the new entry at destination/<source file name>, and for any other
\* destination a successful call has made it at the destination itself.
C16_LinkResolution ==
    last.op \in {"copy", "symlink", "hard_link"} =>
        LET into == Append(last.dest, file_name(last.self))
        IN /\ (/\ is_dir(last.pre, last.dest)
               /\ LStat(last.pre, into).kind = "none"
               /\ SourceFits)
                  => /\ last.status = "ok"
                     /\ LStat(fs, into).kind = (IF last.op = "copy" THEN "file" ELSE MadeKind)
           /\ (~is_dir(last.pre, last.dest) /\ last.status = "ok")
                  => Stat(fs, last.dest).kind # "none" \/ LStat(fs, last.dest).kind = "symlink"

(***************************************************************************)
(* Equality of handles.  filey.rs derives PartialEq for Filey, whose one   *)
(* field is a PathBuf, and two PathBufs are equal when their components    *)
(* are: a leading separator is the root, repeated and trailing separators  *)
(* separate nothing, and a "." is a component only at the very start of a  *)
(* path without a root.                                                    *)
(***************************************************************************)
RECURSIVE DropDots(_)
DropDots(c) ==
    IF c = <<>> THEN <<>>
    ELSE IF c[1] = <<".">> THEN DropDots(Tail(c))
    ELSE <<c[1]>> \o DropDots(Tail(c))

\* Path::components
path_components(s) ==
    LET c == Components(s)
        rooted == StartsWith(s, <<"/">>)
    IN [root |-> rooted,
        parts |-> IF ~rooted /\ c # <<>> /\ c[1] = <<".">>
                  THEN <<c[1]>> \o DropDots(Tail(c))
                  ELSE DropDots(c)]

\* filey.rs #[derive(PartialEq)] for Filey: PathBuf == PathBuf
eq(p, q) == path_components(p) = path_components(q)

EqInit ==
    /\ ppath \in PathStrings
    /\ home = [set |-> FALSE, value |-> <<>>]
    /\ cwd = <<"/">>
    /\ plast = [op |-> "new", facade |-> "none", status |-> "ok", from |-> <<>>]
    /\ FormatIdle
    /\ FsIdle

\* Filey::new(ppath) == Filey::new(q)
FyEq ==
    /\ plast.op = "new"
    /\ \E q \in PathStrings :
          plast' = [op |-> "eq", facade |-> "filey",
                    status |-> IF eq(ppath, q) THEN "equal" ELSE "unequal", from |-> q]
    /\ UNCHANGED <<home, cwd, ppath, fvars, svars>>

EqNext == FyEq

SpecEq == EqInit /\ [][EqNext]_vars

\* C20: two handles are equal exactly when their path strings are the same
\* character for character; strings that differ by a trailing separator, a
\* doubled separator or a "." segment give unequal handles.
C20_EqualByString ==
    plast.op = "eq" => (plast.status = "equal" <=> ppath = plast.from)

(***************************************************************************)
(* Properties of the handle that move_to of filey.rs updates.              *)
(***************************************************************************)
\* a move_to of filey.rs has succeeded
FyMoved == last.op = "move_to" /\ last.facade = "filey" /\ last.status = "ok"

\* the handle's path is the resolved destination and names the entry that
\* was at its path before the call
HandleFollows ==
    /\ handle = Resolved(last.pre, last.self, last.dest)
    /\ LStat(last.pre, last.self).kind # "none"
    /\ LStat(fs, handle) = LStat(last.pre, last.self)

\* C21: after every successful move_to of filey.rs the handle's
\* path is the resolved destination and names the place where the file now
\* is (from where a following move_to takes it), and the earlier location no
\* longer exists.
C21_HandleFollowsFile ==
    FyMoved =>
        /\ HandleFollows
        /\ handle # last.self => LStat(fs, last.self).kind = "none"

\* C22: format never shows the magnitude 0 for a byte count that is not 0,
\* and shows every n >= 1000 with a magnitude between 1 and 1023 in its unit.
C22_NoZeroMagnitude ==
    fpc = "done" =>
        LET q == ParseDec(MagnitudeShown(fout))
        IN /\ IsDigits(MagnitudeShown(fout))
           /\ fn # <<>> => q # <<>>
           /\ Leq(Lit(<<1, 000>>), fn) => (Leq(<<1>>, q) /\ Leq(q, Lit(<<1, 023>>)))

\* the path p lies at or under the directory h: the components of h are the
\* first components of p
Under(p, h) ==
    LET a == Components(h)
        b == Components(p)
    IN /\ StartsWith(p, <<"/">>) <=> StartsWith(h, <<"/">>)
       /\ Len(a) <= Len(b)
       /\ SubSeq(b, 1, Len(a)) = a

\* C23: contract_user / close_user replace HOME only when it is a whole
\* leading path segment: a path that does not lie under HOME, though its text
\* may begin with the text of HOME, is returned unchanged.
C23_WholeSegment ==
    (/\ plast.op = "contract_user"
     /\ home.set
     /\ ~Under(plast.from, home.value))
        => /\ plast.status = "ok"
           /\ ppath = plast.from

(***************************************************************************)
(* permissions.rs.  The mode of metadata is st_mode: the nine permission   *)
(* bits, above them the setuid, setgid and sticky bits, above those the    *)
(* file type.  Every file type metadata can meet is taken, a symbolic link *)
(* excepted (metadata follows it), and the type 0 of the inodes without a  *)
(* type that the kernel hands out for event and poll descriptors, which    *)
(* metadata reaches through /proc/self/fd.                                 *)
(***************************************************************************)
FileTypeBits == {0, 1, 2, 4, 6, 8, 12}

Modes == {t * 4096 + low : t \in FileTypeBits, low \in 0 .. 4095}

OctChar == <<"0", "1", "2", "3", "4", "5", "6", "7">>

\* format!("{:o}", mode)
RECURSIVE format_octal(_)
format_octal(m) ==
    IF m < 8 THEN <<OctChar[m + 1]>>
    ELSE Append(format_octal(m \div 8), OctChar[(m % 8) + 1])

\* chars().skip(k).collect()
skip(s, k) == SubSeq(s, k + 1, Len(s))

\* permissions.rs char_to_u32: c.to_string().parse::<u32>()
char_to_u32(c) ==
    IF \E d \in 1 .. 10 : DigitChar[d] = c THEN Ok(DigitValue(c)) ELSE Err("FileyError")

\* permissions.rs Permission::from_mode
from_mode(m) ==
    IF m = 1 THEN Permission(TRUE, FALSE, FALSE)
    ELSE IF m = 2 THEN Permission(FALSE, TRUE, FALSE)
    ELSE IF m = 3 THEN Permission(TRUE, TRUE, FALSE)
    ELSE IF m = 4 THEN Permission(FALSE, FALSE, TRUE)
    ELSE IF m = 5 THEN Permission(TRUE, FALSE, TRUE)
    ELSE IF m = 6 THEN Permission(FALSE, TRUE, TRUE)
    ELSE IF m = 7 THEN Permission(TRUE, TRUE, TRUE)
    ELSE Permission(FALSE, FALSE, FALSE)

\* permissions.rs Permissions::from_path, from the mode on: length - 3 on a
\* usize below 3 panics (overflow in a checked build, an index past the end
\* of the vector in an unchecked one)
from_path(m) ==
    LET permissions == skip(format_octal(m), 2)
        length == Len(permissions)
    IN IF length < 3 THEN [NoPermissions EXCEPT !.status = "panic"]
       ELSE LET u == char_to_u32(permissions[length - 2])
                g == char_to_u32(permissions[length - 1])
                o == char_to_u32(permissions[length])
            IN IF ~u.ok \/ ~g.ok \/ ~o.ok THEN [NoPermissions EXCEPT !.status = "FileyError"]
               ELSE [status |-> "ok", user |-> from_mode(u.value),
                     group |-> from_mode(g.value), others |-> from_mode(o.value)]

PermInit ==
    /\ fpc = "start"
    /\ fn = <<>>
    /\ fout = <<>>
    /\ mode \in Modes
    /\ perms = NoPermissions
    /\ PathIdle
    /\ FsIdle

\* let p = Permissions::from_path(path);
FromPath ==
    /\ fpc = "start"
    /\ perms' = from_path(mode)
    /\ fpc' = "done"
    /\ UNCHANGED <<fn, fout, mode, pvars, svars>>

PermNext == FromPath

SpecPerm == PermInit /\ [][PermNext]_vars

\* bit k of the mode
Bit(m, k) == (m \div (2 ^ k)) % 2 = 1

\* read is the 4 bit, write the 2 bit and execute the 1 bit of the three bits
\* that start at bit k
Triple(m, k) == Permission(Bit(m, k), Bit(m, k + 1), Bit(m, k + 2))

\* C24: for every mode the operating system can report, from_path returns
\* without a panic and gives user, group and others as the mode bits 8-6, 5-3
\* and 2-0; the file type and the setuid, setgid and sticky bits do not
\* matter.
C24_PermissionBits ==
    fpc = "done" =>
        /\ perms.status = "ok"
        /\ perms.user = Triple(mode, 6)
        /\ perms.group = Triple(mode, 3)
        /\ perms.others = Triple(mode, 0)

(***************************************************************************)
(* impl Read and impl Write.  Each call opens the file anew and no         *)
(* position is kept in the handle.  The calls on one handle follow one     *)
(* another; for reads that follow one another last.to holds the bytes      *)
(* delivered so far, last.ret the bytes of the call.                       *)
(***************************************************************************)
\* the lengths of the buffers read is called with
BufLens == {1}

\* the most bytes a run of reads delivers
MaxReads == 3

Min(a, b) == IF a < b THEN a ELSE b

\* filey.rs impl Read for Filey, read: File::open, then one read into buf
fy_read(f, self, len) ==
    LET r == Place(f, self)
    IN IF r.ok /\ At(f, r.path).kind = "file"
       THEN LET c == At(f, r.path).content
            IN MoveResult("ok", f, <<>>, SubSeq(c, 1, Min(len, Len(c))))
       ELSE MoveResult("IoError", f, <<>>, <<>>)

\* filey.rs impl Write for Filey, write: File::create, then one write of buf
fy_write(f, self, buf) ==
    LET r == file_create(f, self)
    IN IF r.ok
       THEN MoveResult("ok", Put(r.fs, Place(f, self).path, FileEntry(buf)), self, self)
       ELSE MoveResult("IoError", f, self, self)

\* filey.rs impl Write for Filey, flush: File::create, then flush
fy_flush(f, self) ==
    LET r == file_create(f, self)
    IN MoveResult(IF r.ok THEN "ok" ELSE "IoError", r.fs, self, self)

\* file_operations.rs impl Write for Filey, flush: the file is opened for
\* writing (it has to be there) and nothing is written
fo_flush(f, self) ==
    MoveResult(IF is_file(f, self) THEN "ok" ELSE "IoError", f, self, self)

\* the handle is new, or its last call was a read, write or flush of the
\* same revision
IoReady(facade) ==
    \/ last.op = "new"
    \/ last.op \in {"read", "write", "flush"} /\ last.facade = facade

IoCall(op, facade, arg, r) ==
    /\ IoReady(facade)
    /\ Fits(Place(fs, handle))
    /\ Cardinality(Entries(r.fs)) <= MaxEntries
    /\ fs' = r.fs
    /\ last' = Call(op, facade, arg, r)
    /\ UNCHANGED <<handle, fvars, pvars>>

IoFyRead ==
    \E len \in BufLens :
        LET r == fy_read(fs, handle, len)
            delivered == (IF last.op = "read" THEN last.to ELSE <<>>) \o r.ret
        IN /\ Len(delivered) <= MaxReads
           /\ IoCall("read", "filey", <<len>>, [r EXCEPT !.to = delivered])

IoFyWrite == \E buf \in Bufs : IoCall("write", "filey", buf, fy_write(fs, handle, buf))

IoFyFlush == IoCall("flush", "filey", <<>>, fy_flush(fs, handle))

IoFoWrite == \E buf \in Bufs : IoCall("write", "file_operations", buf, fo_write(fs, handle, buf))

IoFoFlush == IoCall("flush", "file_operations", <<>>, fo_flush(fs, handle))

IoNext ==
    \/ New
    \/ Return
    \/ IoFyRead
    \/ IoFyWrite
    \/ IoFyFlush
    \/ IoFoWrite
    \/ IoFoFlush

SpecIo == FsInit /\ [][IoNext]_vars

\* C25: reading a Filey to the end terminates: the bytes that reads with a
\* non-empty buffer deliver one after another are the file's content once and
\* in order, and the read that comes when all of it is delivered returns 0.
C25_ReadToEnd ==
    (last.op = "read" /\ last.status = "ok") =>
        LET c == Stat(fs, last.self).content
            before == SubSeq(last.to, 1, Len(last.to) - Len(last.ret))
        IN /\ IsPrefix(last.to, c)
           /\ before = c => last.ret = <<>>

\* C26: writes through the Write implementation accumulate: a write that
\* follows a write on the same handle, both reporting success, leaves the
\* file with the bytes it had followed by the new ones, and a flush never
\* takes away bytes already written.
C26_WritesAccumulate ==
    [][/\ (/\ last.op = "write" /\ last.status = "ok"
           /\ last'.op = "write" /\ last'.status = "ok")
              => Stat(fs', handle').content = Stat(fs, handle).content \o last'.dest
       /\ (/\ last.op \in {"write", "flush"} /\ last.status = "ok"
           /\ last'.op = "flush" /\ last'.status = "ok")
              => Stat(fs', handle').content = Stat(fs, handle).content]_vars

(***************************************************************************)
(* One handle of filey.rs under all the calls that rewrite its path:       *)
(* expand_user, contract_user and absolutize work on the text of the path, *)
(* canonicalize and move_to on the filesystem.  The handle keeps the path  *)
(* as components; an absolute one starts with "/".                         *)
(***************************************************************************)
\* the text of a path
RECURSIVE PathText(_)
PathText(p) ==
    IF p = <<>> THEN <<>>
    ELSE IF p[1] = "/" THEN <<"/">> \o PathText(Tail(p))
    ELSE IF Len(p) = 1 THEN p
    ELSE <<p[1], "/">> \o PathText(Tail(p))

\* PathBuf::from(text): the root, when the text starts with one, and the
\* components; the names of the tree are one character each
FromText(s) ==
    LET c == Components(s)
    IN (IF StartsWith(s, <<"/">>) THEN <<"/">> ELSE <<>>)
          \o [i \in 1 .. Len(c) |-> IF Len(c[i]) = 1 THEN c[i][1] ELSE c[i]]

\* fs::canonicalize: the absolute path with every link followed, an error
\* when the path names nothing
canonicalize(f, p) ==
    LET r == Place(f, p)
    IN IF r.ok /\ At(f, r.path).kind # "none" THEN Ok(Absolute(r.path)) ELSE Err(p)

\* `let v = ...?; self.path = v; Ok(self)`: the path is assigned after the
\* fallible step has succeeded
Assigned(r, f, self) ==
    IF r.ok THEN MoveResult("ok", f, r.value, r.value)
    ELSE MoveResult("FileyError", f, self, self)

\* filey.rs Filey::expand_user, contract_user and absolutize on a handle
fy_expand_user_path(f, self) ==
    LET r == fy_expand_user(PathText(self))
    IN Assigned(IF r.ok THEN Ok(FromText(r.value)) ELSE r, f, self)

fy_contract_user_path(f, self) ==
    LET r == fy_contract_user(PathText(self))
    IN Assigned(IF r.ok THEN Ok(FromText(r.value)) ELSE r, f, self)

fy_absolutize_path(f, self) ==
    LET r == fy_absolutize(PathText(self))
    IN Assigned(IF r.ok THEN Ok(FromText(r.value)) ELSE r, f, self)

\* filey.rs Filey::canonicalize
fy_canonicalize(f, self) == Assigned(canonicalize(f, self), f, self)

Rewrite(op, r) ==
    /\ Ready
    /\ handle' = r.ret
    /\ last' = Call(op, "filey", <<>>, r)
    /\ UNCHANGED <<fs, fvars, pvars>>

HandleExpandUser == Rewrite("expand_user", fy_expand_user_path(fs, handle))
HandleContractUser == Rewrite("contract_user", fy_contract_user_path(fs, handle))
HandleAbsolutize == Rewrite("absolutize", fy_absolutize_path(fs, handle))
HandleCanonicalize == Rewrite("canonicalize", fy_canonicalize(fs, handle))

\* paths written with a tilde in front
HomePaths == {<<"~">> \o SubSeq(p, 1, Len(p) - 1) : p \in Paths}

\* HOME is unset, or a directory of the tree
FrameInit ==
    /\ fs = EmptyFs
    /\ handle \in Paths \cup HomePaths
    /\ last = [NoCall EXCEPT !.self = handle]
    /\ FormatIdle
    /\ home \in {[set |-> FALSE, value |-> <<>>], [set |-> TRUE, value |-> <<"/", "a">>]}
    /\ cwd = <<"/">>
    /\ ppath = <<>>
    /\ plast = [op |-> "new", facade |-> "none", status |-> "ok", from |-> <<>>]

FrameNext ==
    \/ New
    \/ Return
    \/ FoCreate
    \/ FyMoveTo
    \/ HandleExpandUser
    \/ HandleContractUser
    \/ HandleAbsolutize
    \/ HandleCanonicalize

SpecFrame == FrameInit /\ [][FrameNext]_vars

Rewrites == {"absolutize", "canonicalize", "expand_user", "contract_user", "move_to"}

C28_LinkReachesFile ==
    (last.op = "symlink" /\ last.status = "ok" /\ exists(last.pre, last.self)) =>
        /\ LStat(fs, last.to).kind = "symlink"
        /\ Place(fs, last.to).ok
        /\ Place(fs, last.to) = Place(fs, last.self)

====
